---- MODULE Spec2Model ----
(***************************************************************************)
(* Model of estat_mcp_server/server.py: five tool handlers that build a    *)
(* URL by string interpolation and delegate to make_e_stat_request, which  *)
(* performs one HTTP GET and turns every Exception into an error payload.  *)
(*                                                                         *)
(* Text is a sequence of chunks (a chunk is a run of characters that the   *)
(* model never needs to split).  An f-string is the concatenation of its   *)
(* literal chunks and the chunks of the interpolated values, so reserved   *)
(* characters inside an argument are indistinguishable from the literal    *)
(* ones once the URL is built, exactly as in the program.                  *)
(***************************************************************************)
EXTENDS Integers, Sequences, FiniteSets, TLC

\* ------------------------------------------------------------------ bounds
MaxInv == 2      \* invocations the host may have in flight together
MaxLen == 2      \* chunks of text a lone invocation's string arguments may hold

\* --------------------------------------------------------------- constants
DefaultTimeout == 30
DefaultStartPosition == 1
DefaultLimit == 100

VARIABLES
    E_STAT_APP_ID,  \* module global read once at import (os.getenv)
    calls,          \* invocation ids the hosting protocol layer uses
    pc,             \* pc[i]: idle | awaiting | returned | raised | cancelled
    op,             \* op[i]: name of the tool handler invoked
    args,           \* args[i]: the handler's arguments
    url,            \* url[i]: the URL handed to make_e_stat_request
    gets,           \* gets[i]: number of client.get calls issued by i
    outcome,        \* outcome[i]: what the awaited GET produced
    result,         \* result[i]: value returned or exception raised
    inflight        \* requests on the wire: [client, owner, url]

vars == <<E_STAT_APP_ID, calls, pc, op, args, url, gets, outcome, result, inflight>>

\* ------------------------------------------------------------ Python values
None == [isNone |-> TRUE, s |-> <<>>]
Str(s) == [isNone |-> FALSE, s |-> s]

\* str(x) as an f-string placeholder renders it
Format(v) == IF v.isNone THEN <<"None">> ELSE v.s
FormatInt(n) == <<ToString(n)>>

IsNotNone(v) == ~v.isNone
\* bool(x) of an Optional[str]: None and "" are falsy
Truthy(v) == ~v.isNone /\ v.s # <<>>

\* ------------------------------------------------------------------ inputs
E_STAT_API_BASE_URL == "https://api.e-stat.go.jp/rest/3.0/app/"

Alphabet == {"a", "&", "#", "statsDataId"}
RECURSIVE StringsUpTo(_, _)
StringsUpTo(A, n) ==
    IF n = 0 THEN {<<>>}
    ELSE LET S == StringsUpTo(A, n - 1)
         IN  S \cup {Append(s, c) : s \in {t \in S : Len(t) = n - 1}, c \in A}

Wide == calls = {1}
Words == IF Wide THEN StringsUpTo(Alphabet, MaxLen) ELSE {<<>>, <<"a">>}
SurveyYears == IF Wide THEN {<<"2023">>, <<"202301-202312">>} ELSE {<<"2023">>}
Positions == IF Wide THEN {DefaultStartPosition, 101} ELSE {DefaultStartPosition}
Limits == IF Wide THEN {DefaultLimit, 5} ELSE {DefaultLimit}
OptionalIds == {None} \cup {Str(w) : w \in Words}

\* ------------------------------------------------------------- URL building
SearchURL(appid, search_word, surveyYears, startPosition, limit) ==
    <<E_STAT_API_BASE_URL, "getStatsList", "?", "appId", "=">> \o Format(appid)
    \o <<"&", "searchWord", "=">> \o search_word
    \o <<"&", "limit", "=">> \o FormatInt(limit)
    \o <<"&", "surveyYears", "=">> \o surveyYears
    \o <<"&", "startPosition", "=">> \o FormatInt(startPosition)

MetaInfoURL(appid, stats_data_id) ==
    <<E_STAT_API_BASE_URL, "getMetaInfo", "?", "appId", "=">> \o Format(appid)
    \o <<"&", "statsDataId", "=">> \o stats_data_id

SpecificBaseURL(appid, startPosition, limit) ==
    <<E_STAT_API_BASE_URL, "getSimpleStatsData", "?", "appId", "=">> \o Format(appid)
    \o <<"&", "startPosition", "=">> \o FormatInt(startPosition)
    \o <<"&", "limit", "=">> \o FormatInt(limit)

SpecificBranchFirstWins(data_set_id, stats_data_id) ==
    IF Truthy(data_set_id) THEN "dataSetId"
    ELSE IF Truthy(stats_data_id) THEN "statsDataId"
    ELSE "raise"

\* the if / elif / else of get_specific_e_stat_data
SpecificBranch(data_set_id, stats_data_id) ==
    IF Truthy(data_set_id) /\ ~Truthy(stats_data_id) THEN "dataSetId"
    ELSE IF Truthy(stats_data_id) /\ ~Truthy(data_set_id) THEN "statsDataId"
    ELSE "raise"

SpecificURL(appid, data_set_id, stats_data_id, startPosition, limit) ==
    LET b == SpecificBranch(data_set_id, stats_data_id)
        base == SpecificBaseURL(appid, startPosition, limit)
    IN  IF b = "dataSetId" THEN base \o <<"&", "dataSetId", "=">> \o Format(data_set_id)
        ELSE IF b = "statsDataId"
             THEN base \o <<"&", "statsDataId", "=">> \o Format(stats_data_id)
             ELSE base

RefDatasetURLWithId(appid, data_set_id) ==
    <<E_STAT_API_BASE_URL, "refDataset", "?", "appId", "=">> \o Format(appid)
    \o <<"&", "dataSetId", "=">> \o data_set_id

RefDatasetURL(appid, data_set_id) ==
    <<E_STAT_API_BASE_URL, "refDataset", "?", "appId", "=">> \o Format(appid)

DataCatalogURL(appid, search_word, surveyYears, startPosition, limit) ==
    <<E_STAT_API_BASE_URL, "getDataCatalog", "?", "appId", "=">> \o Format(appid)
    \o <<"&", "searchWord", "=">> \o search_word
    \o <<"&", "surveyYears", "=">> \o surveyYears
    \o <<"&", "startPosition", "=">> \o FormatInt(startPosition)
    \o <<"&", "limit", "=">> \o FormatInt(limit)

\* ------------------------------------------- what client.get puts on the wire
\* index of the first occurrence of chunk c in s, or 0
IndexOf(s, c) ==
    IF \E k \in 1..Len(s) : s[k] = c
    THEN CHOOSE k \in 1..Len(s) : s[k] = c /\ \A m \in 1..(k - 1) : s[m] # c
    ELSE 0

Before(s, c) == IF IndexOf(s, c) = 0 THEN s ELSE SubSeq(s, 1, IndexOf(s, c) - 1)
After(s, c) == IF IndexOf(s, c) = 0 THEN <<>> ELSE SubSeq(s, IndexOf(s, c) + 1, Len(s))

\* the fragment is not sent; the first "?" separates path and query
RequestPath(u) == Before(Before(u, "#"), "?")
RequestQuery(u) == After(Before(u, "#"), "?")
RequestEndpoint(u) ==
    IF Len(RequestPath(u)) = 2 /\ RequestPath(u)[1] = E_STAT_API_BASE_URL
    THEN RequestPath(u)[2] ELSE "?"

RECURSIVE SplitOn(_, _)
SplitOn(s, c) ==
    IF IndexOf(s, c) = 0 THEN <<s>> ELSE <<Before(s, c)>> \o SplitOn(After(s, c), c)

\* the query as the server reads it: name=value pieces separated by "&"
RequestParams(u) ==
    LET pieces == SelectSeq(SplitOn(RequestQuery(u), "&"), LAMBDA p : p # <<>>)
    IN  [k \in 1..Len(pieces) |->
            [name |-> Before(pieces[k], "="), value |-> After(pieces[k], "=")]]

ParamSet(u) == {RequestParams(u)[k] : k \in 1..Len(RequestParams(u))}
ParamNames(u) == {p.name : p \in ParamSet(u)}
Param(n, v) == [name |-> <<n>>, value |-> v]

\* ------------------------------------------------------- outcomes of the GET
Response(status, body) == [cls |-> "Response", status |-> status, text |-> body]
Fault(cls, text) == [cls |-> cls, status |-> 0, text |-> text]
HTTPStatusError(response) ==
    [cls |-> "HTTPStatusError", status |-> response.status, text |-> <<"status error">>]
CancelledError == Fault("CancelledError", <<>>)
ValueError == Fault("ValueError", <<"Either 'data_set_id' or 'stats_data_id' must be provided, but not both.">>)
NoOutcome == Fault("", <<>>)

Outcomes ==
    {Response(200, <<"<xml/>">>), Fault("ConnectTimeout", <<"timed out">>)}
    \cup IF Wide
         THEN {Response(404, <<"not found">>), Response(500, <<"oops">>),
               Fault("ReadTimeout", <<"timed out">>), Fault("ConnectError", <<"refused">>),
               Fault("InvalidURL", <<"Invalid port">>)}
         ELSE {}

\* class hierarchy of the exceptions involved (httpx, asyncio, builtins)
BaseOf(c) ==
    CASE c \in {"ConnectTimeout", "ReadTimeout"} -> "TimeoutException"
      [] c \in {"TimeoutException", "NetworkError"} -> "TransportError"
      [] c = "ConnectError" -> "NetworkError"
      [] c = "TransportError" -> "RequestError"
      [] c \in {"RequestError", "HTTPStatusError"} -> "HTTPError"
      [] c \in {"HTTPError", "InvalidURL", "ValueError"} -> "Exception"
      [] c \in {"Exception", "CancelledError"} -> "BaseException"
      [] OTHER -> "object"

RECURSIVE IsSubclass(_, _)
IsSubclass(c, d) == c = d \/ (c # "object" /\ IsSubclass(BaseOf(c), d))
IsInstance(e, d) == IsSubclass(e.cls, d)

\* ------------------------------------------------------ make_e_stat_request
Q == "\""
Payload(error_msg, status, extra) ==
    <<"{", Q, "ERROR", Q, ": ", Q>> \o error_msg
    \o <<Q, ", ", Q, "status", Q, ": ", Q, status, Q>> \o extra \o <<"}">>

Returned(s) == [type |-> "str", s |-> s]
Raised(e) == [type |-> e.cls, s |-> e.text]
NoResult == [type |-> "unset", s |-> <<>>]

ExceptHandlerTransportFirst(e, timeout) ==
    IF IsInstance(e, "TransportError")
    THEN Returned(Payload(<<"connection failed">>, "connection_error", <<>>))
    ELSE IF IsInstance(e, "TimeoutException")
    THEN Returned(Payload(<<"timeout, current setting: ", ToString(timeout), "s">>,
                          "timeout", <<>>))
    ELSE IF IsInstance(e, "HTTPStatusError")
    THEN Returned(Payload(<<"HTTP error (status code: ", ToString(e.status), ")">>,
                          "http_error",
                          <<", ", Q, "status_code", Q, ": ", ToString(e.status)>>))
    ELSE Returned(Payload(<<"unexpected error: ">> \o e.text, "unknown_error", <<>>))

ExceptHandlerReraise(e, timeout) ==
    IF IsInstance(e, "TimeoutException")
    THEN Returned(Payload(<<"timeout, current setting: ", ToString(timeout), "s">>,
                          "timeout", <<>>))
    ELSE IF IsInstance(e, "ConnectError")
    THEN Returned(Payload(<<"connection failed">>, "connection_error", <<>>))
    ELSE IF IsInstance(e, "HTTPStatusError")
    THEN Returned(Payload(<<"HTTP error (status code: ", ToString(e.status), ")">>,
                          "http_error",
                          <<", ", Q, "status_code", Q, ": ", ToString(e.status)>>))
    ELSE Raised(e)

\* the isinstance chain of the except block
ExceptHandler(e, timeout) ==
    IF IsInstance(e, "TimeoutException")
    THEN Returned(Payload(<<"timeout, current setting: ", ToString(timeout), "s">>,
                          "timeout", <<>>))
    ELSE IF IsInstance(e, "ConnectError")
    THEN Returned(Payload(<<"connection failed">>, "connection_error", <<>>))
    ELSE IF IsInstance(e, "HTTPStatusError")
    THEN Returned(Payload(<<"HTTP error (status code: ", ToString(e.status), ")">>,
                          "http_error",
                          <<", ", Q, "status_code", Q, ": ", ToString(e.status)>>))
    ELSE Returned(Payload(<<"unexpected error: ">> \o e.text, "unknown_error", <<>>))

CaughtHTTPErrorOnly(e) == IsInstance(e, "HTTPError")
\* except Exception as e
Caught(e) == IsInstance(e, "Exception")

Except(e, timeout) == IF Caught(e) THEN ExceptHandler(e, timeout) ELSE Raised(e)

\* response.raise_for_status()
IsSuccess(response) == response.status \in 200..299

\* what the try statement evaluates to once the awaited GET has produced o
TryGet(o, timeout) ==
    IF o.cls = "Response"
    THEN IF IsSuccess(o) THEN Returned(o.text) ELSE Except(HTTPStatusError(o), timeout)
    ELSE Except(o, timeout)

ClientShared(i) == 0
\* async with httpx.AsyncClient(...) as client: one client per invocation
ClientOf(i) == i

Request(i) == [client |-> ClientOf(i), owner |-> i, url |-> url[i]]

\* make_e_stat_request up to the suspension at "await client.get(url)"
Start(i, o, a, u) ==
    /\ pc' = [pc EXCEPT ![i] = "awaiting"]
    /\ op' = [op EXCEPT ![i] = o]
    /\ args' = [args EXCEPT ![i] = a]
    /\ url' = [url EXCEPT ![i] = u]
    /\ gets' = [gets EXCEPT ![i] = @ + 1]
    /\ inflight' = inflight \cup {[client |-> ClientOf(i), owner |-> i, url |-> u]}
    /\ UNCHANGED <<E_STAT_APP_ID, calls, outcome, result>>

\* leaving the async with block closes the invocation's client
CloseClient(i) == {r \in inflight : r.client # ClientOf(i)}

FinishRetrying(i, o) ==
    IF IsInstance(o, "TimeoutException") /\ gets[i] < 2
    THEN /\ gets' = [gets EXCEPT ![i] = @ + 1]
         /\ UNCHANGED <<E_STAT_APP_ID, calls, pc, op, args, url, outcome, result, inflight>>
    ELSE LET r == TryGet(o, DefaultTimeout)
         IN  /\ outcome' = [outcome EXCEPT ![i] = o]
             /\ result' = [result EXCEPT ![i] = r]
             /\ pc' = [pc EXCEPT ![i] = IF r.type = "str" THEN "returned" ELSE "raised"]
             /\ inflight' = CloseClient(i)
             /\ UNCHANGED <<E_STAT_APP_ID, calls, op, args, url, gets>>

\* make_e_stat_request from the resumption of the await to its return
Finish(i, o) ==
    LET r == TryGet(o, DefaultTimeout)
    IN  /\ outcome' = [outcome EXCEPT ![i] = o]
        /\ result' = [result EXCEPT ![i] = r]
        /\ pc' = [pc EXCEPT ![i] = IF r.type = "str" THEN "returned" ELSE "raised"]
        /\ inflight' = CloseClient(i)
        /\ UNCHANGED <<E_STAT_APP_ID, calls, op, args, url, gets>>

\* ------------------------------------------------------------------ actions
search_e_stat_tables(i) ==
    /\ pc[i] = "idle"
    /\ \E w \in Words, y \in SurveyYears, p \in Positions, l \in Limits :
          Start(i, "search_e_stat_tables",
                [search_word |-> w, surveyYears |-> y, startPosition |-> p, limit |-> l],
                SearchURL(E_STAT_APP_ID, w, y, p, l))

get_e_stat_meta_info(i) ==
    /\ pc[i] = "idle"
    /\ \E s \in Words :
          Start(i, "get_e_stat_meta_info", [stats_data_id |-> s],
                MetaInfoURL(E_STAT_APP_ID, s))

get_specific_e_stat_data(i) ==
    /\ pc[i] = "idle"
    /\ \E d \in OptionalIds, s \in OptionalIds, p \in Positions, l \in Limits :
          /\ Len(d.s) + Len(s.s) <= MaxLen
          /\ LET a == [data_set_id |-> d, stats_data_id |-> s,
                    startPosition |-> p, limit |-> l]
             IN  IF SpecificBranch(d, s) = "raise"
                 THEN /\ pc' = [pc EXCEPT ![i] = "raised"]
                      /\ op' = [op EXCEPT ![i] = "get_specific_e_stat_data"]
                      /\ args' = [args EXCEPT ![i] = a]
                      /\ result' = [result EXCEPT ![i] = Raised(ValueError)]
                      /\ UNCHANGED <<E_STAT_APP_ID, calls, url, gets, outcome, inflight>>
                 ELSE Start(i, "get_specific_e_stat_data", a,
                            SpecificURL(E_STAT_APP_ID, d, s, p, l))

get_e_stat_ref_dataset(i) ==
    /\ pc[i] = "idle"
    /\ \E d \in Words :
          Start(i, "get_e_stat_ref_dataset", [data_set_id |-> d],
                RefDatasetURL(E_STAT_APP_ID, d))

get_e_stat_data_catalog(i) ==
    /\ pc[i] = "idle"
    /\ \E w \in Words, y \in SurveyYears, p \in Positions, l \in Limits :
          Start(i, "get_e_stat_data_catalog",
                [search_word |-> w, surveyYears |-> y, startPosition |-> p, limit |-> l],
                DataCatalogURL(E_STAT_APP_ID, w, y, p, l))

\* the awaited GET completes and make_e_stat_request runs to its end
Resume(i) ==
    /\ pc[i] = "awaiting"
    /\ Request(i) \in inflight
    /\ \E o \in Outcomes : Finish(i, o)

\* the host abandons the call: CancelledError is thrown into the await
Cancel(i) ==
    /\ pc[i] = "awaiting"
    /\ Request(i) \in inflight
    /\ LET r == Except(CancelledError, DefaultTimeout)
       IN  /\ result' = [result EXCEPT ![i] = r]
           /\ pc' = [pc EXCEPT ![i] = IF r.type = "str" THEN "returned"
                                      ELSE IF r.type = "CancelledError" THEN "cancelled"
                                      ELSE "raised"]
    /\ inflight' = CloseClient(i)
    /\ UNCHANGED <<E_STAT_APP_ID, calls, op, args, url, gets, outcome>>

Init ==
    /\ calls \in {{1}, 1..MaxInv}
    /\ E_STAT_APP_ID \in IF calls = {1} THEN {None, Str(<<"K">>)} ELSE {Str(<<"K">>)}
    /\ pc = [i \in calls |-> "idle"]
    /\ op = [i \in calls |-> ""]
    /\ args = [i \in calls |-> [none |-> TRUE]]
    /\ url = [i \in calls |-> <<>>]
    /\ gets = [i \in calls |-> 0]
    /\ outcome = [i \in calls |-> NoOutcome]
    /\ result = [i \in calls |-> NoResult]
    /\ inflight = {}

Next ==
    \E i \in calls :
        \/ search_e_stat_tables(i)
        \/ get_e_stat_meta_info(i)
        \/ get_specific_e_stat_data(i)
        \/ get_e_stat_ref_dataset(i)
        \/ get_e_stat_data_catalog(i)
        \/ Resume(i)
        \/ Cancel(i)

Spec == Init /\ [][Next]_vars

\* ------------------------------------------------- vocabulary of the claims
\* an identifier counts as supplied when it is a non-empty string
Supplied(v) == ~v.isNone /\ Len(v.s) > 0
IsSpecific(i) == op[i] = "get_specific_e_stat_data"
Owned(i) == {r \in inflight : r.owner = i}
Requested(i) == gets[i] > 0
Completed(i) == pc[i] \in {"returned", "raised"}
TimeoutClasses == {"ConnectTimeout", "ReadTimeout"}
SuccessOutcome(o) == o.cls = "Response" /\ o.status >= 200 /\ o.status < 300
ErrorStatusOutcome(o) == o.cls = "Response" /\ ~SuccessOutcome(o)

\* reading an error payload: the value that follows "key":
KeyPositions(s, key) ==
    {k \in 1..(Len(s) - 4) : SubSeq(s, k, k + 3) = <<Q, key, Q, ": ">>}
QuotedField(s, key) ==
    IF Cardinality(KeyPositions(s, key)) = 1
    THEN LET k == CHOOSE k \in KeyPositions(s, key) : TRUE
         IN  IF k + 6 <= Len(s) /\ s[k + 4] = Q /\ s[k + 6] = Q THEN s[k + 5] ELSE "?"
    ELSE "?"
BareField(s, key) ==
    IF Cardinality(KeyPositions(s, key)) = 1
    THEN s[(CHOOSE k \in KeyPositions(s, key) : TRUE) + 4]
    ELSE "?"
\* the text of the ERROR field: from its opening quote to the status key
MessageOf(s) ==
    IF KeyPositions(s, "status") = {} \/ s[2] # Q \/ s[3] # "ERROR" THEN <<>>
    ELSE SubSeq(s, 7, (CHOOSE k \in KeyPositions(s, "status") : TRUE) - 3)
Mentions(s, chunk) == \E k \in 1..Len(s) : s[k] = chunk
EndsWith(s, t) == Len(s) >= Len(t) /\ SubSeq(s, Len(s) - Len(t) + 1, Len(s)) = t

\* C1: get_specific_e_stat_data called with neither or both identifiers
\* supplied is rejected with an exception, has issued no GET and has no
\* request on the wire, whatever startPosition and limit are.
C1_RejectedBeforeNetwork ==
    \A i \in calls :
        (IsSpecific(i)
         /\ (Supplied(args[i].data_set_id) <=> Supplied(args[i].stats_data_id)))
        => /\ pc[i] = "raised"
           /\ result[i].type = "ValueError"
           /\ gets[i] = 0
           /\ url[i] = <<>>
           /\ Owned(i) = {}

C1_Witness ==
    \E i, j \in calls :
        /\ IsSpecific(i) /\ IsSpecific(j)
        /\ args[i].data_set_id = None /\ args[i].stats_data_id = None
        /\ Supplied(args[j].data_set_id) /\ Supplied(args[j].stats_data_id)
        /\ pc[i] = "raised" /\ pc[j] = "raised"

\* C2: get_specific_e_stat_data called with exactly one identifier supplied
\* issues exactly one request, to getSimpleStatsData, whose query holds that
\* identifier under its own name and not the other name; no request of any
\* invocation carries both dataSetId and statsDataId.
C2_OneRequestOneIdentifier ==
    /\ \A i \in calls :
          (IsSpecific(i)
           /\ (Supplied(args[i].data_set_id) # Supplied(args[i].stats_data_id)))
          => /\ gets[i] = 1
             /\ RequestEndpoint(url[i]) = "getSimpleStatsData"
             /\ Supplied(args[i].data_set_id)
                   => /\ Param("dataSetId", args[i].data_set_id.s) \in ParamSet(url[i])
                      /\ <<"statsDataId">> \notin ParamNames(url[i])
             /\ Supplied(args[i].stats_data_id)
                   => /\ Param("statsDataId", args[i].stats_data_id.s) \in ParamSet(url[i])
                      /\ <<"dataSetId">> \notin ParamNames(url[i])
    /\ \A i \in calls :
          Requested(i) => ~({<<"dataSetId">>, <<"statsDataId">>} \subseteq ParamNames(url[i]))

\* C3: whatever the awaited GET produced (a response of any status or a
\* raised Exception), make_e_stat_request has returned a string: the body
\* of a successful response unchanged, an error payload otherwise.
C3_ExecutorReturnsString ==
    \A i \in calls :
        outcome[i] # NoOutcome
        => /\ pc[i] = "returned"
           /\ result[i].type = "str"
           /\ SuccessOutcome(outcome[i]) => result[i].s = outcome[i].text
           /\ ~SuccessOutcome(outcome[i])
                 => /\ SubSeq(result[i].s, 1, 6) = <<"{", Q, "ERROR", Q, ": ", Q>>
                    /\ EndsWith(result[i].s, <<"}">>)

C3_Witness ==
    \E i \in calls :
        /\ outcome[i].cls = "InvalidURL"
        /\ pc[i] = "returned"
        /\ QuotedField(result[i].s, "status") = "unknown_error"

\* C4 as stated: every operation that completes has returned a string.
C4_AlwaysString ==
    \A i \in calls : (pc[i] \notin {"idle", "awaiting", "cancelled"}) => result[i].type = "str"

\* C4 amended: an operation that completes has returned a string, except
\* get_specific_e_stat_data called with neither or both identifiers supplied,
\* which raises ValueError without a request; every other completion, for
\* every network outcome, is a returned string.
C4_StringUnlessRejected ==
    \A i \in calls :
        (pc[i] \notin {"idle", "awaiting", "cancelled"})
        => IF IsSpecific(i)
              /\ (Supplied(args[i].data_set_id) <=> Supplied(args[i].stats_data_id))
           THEN pc[i] = "raised" /\ result[i].type = "ValueError" /\ gets[i] = 0
           ELSE pc[i] = "returned" /\ result[i].type = "str" /\ outcome[i] # NoOutcome

C4_Witness ==
    \E i \in calls :
        /\ IsSpecific(i)
        /\ pc[i] = "returned"
        /\ outcome[i].cls = "InvalidURL"
        /\ result[i].type = "str"

\* C5: a failed GET is reported under exactly one status: a timeout as
\* "timeout" with the timeout setting in the message, a connection failure
\* as "connection_error", a non-success HTTP status N as "http_error" with
\* status_code N and N in the message, any other fault as "unknown_error"
\* with the fault's text in the message.
C5_FaultClassification ==
    \A i \in calls :
        (outcome[i] # NoOutcome /\ ~SuccessOutcome(outcome[i]) /\ pc[i] = "returned")
        => LET o == outcome[i]
               s == result[i].s
           IN  /\ Cardinality(KeyPositions(s, "status")) = 1
               /\ IF o.cls \in TimeoutClasses
                  THEN /\ QuotedField(s, "status") = "timeout"
                       /\ Mentions(MessageOf(s), ToString(DefaultTimeout))
                       /\ KeyPositions(s, "status_code") = {}
                  ELSE IF o.cls = "ConnectError"
                  THEN /\ QuotedField(s, "status") = "connection_error"
                       /\ KeyPositions(s, "status_code") = {}
                  ELSE IF ErrorStatusOutcome(o)
                  THEN /\ QuotedField(s, "status") = "http_error"
                       /\ BareField(s, "status_code") = ToString(o.status)
                       /\ Mentions(MessageOf(s), ToString(o.status))
                  ELSE /\ QuotedField(s, "status") = "unknown_error"
                       /\ EndsWith(MessageOf(s), o.text)
                       /\ KeyPositions(s, "status_code") = {}

C5_Witness ==
    \E i \in calls :
        /\ pc[i] = "returned"
        /\ outcome[i].cls = "Response" /\ outcome[i].status = 500
        /\ BareField(result[i].s, "status_code") = "500"

\* C6: an invocation issues at most one GET; one that returned after a
\* request, failed or not, issued exactly one and left nothing on the wire.
C6_NoRetry ==
    \A i \in calls :
        /\ gets[i] <= 1
        /\ outcome[i] # NoOutcome => gets[i] = 1
        /\ Completed(i) => Owned(i) = {}

C6_Witness ==
    \E i \in calls :
        /\ pc[i] = "returned"
        /\ outcome[i].cls \in TimeoutClasses
        /\ QuotedField(result[i].s, "status") = "timeout"
        /\ gets[i] = 1

\* C7: the request of search_e_stat_tables / get_e_stat_data_catalog goes to
\* getStatsList / getDataCatalog and its query is exactly the five pairs
\* appId, searchWord, surveyYears, startPosition, limit, each with the value
\* supplied.
C7_ParametersVerbatim ==
    \A i \in calls :
        (Requested(i) /\ op[i] \in {"search_e_stat_tables", "get_e_stat_data_catalog"})
        => /\ RequestEndpoint(url[i]) =
                 (IF op[i] = "search_e_stat_tables" THEN "getStatsList" ELSE "getDataCatalog")
           /\ Len(RequestParams(url[i])) = 5
           /\ ParamSet(url[i]) =
                 {Param("appId", IF E_STAT_APP_ID.isNone THEN <<"None">> ELSE E_STAT_APP_ID.s),
                  Param("searchWord", args[i].search_word),
                  Param("surveyYears", args[i].surveyYears),
                  Param("startPosition", <<ToString(args[i].startPosition)>>),
                  Param("limit", <<ToString(args[i].limit)>>)}

C9_StateIndependent ==
    /\ \A i, j \in calls :
          (Completed(i) /\ Completed(j) /\ op[i] = op[j] /\ args[i] = args[j]
           /\ outcome[i] = outcome[j])
          => result[i] = result[j]
    /\ \A i \in calls :
          /\ pc[i] = "awaiting" <=> Owned(i) # {}
          /\ Cardinality(Owned(i)) <= 1
          /\ \A r \in Owned(i) : r.url = url[i]

C9_StepIndependent ==
    /\ E_STAT_APP_ID' = E_STAT_APP_ID
    /\ \A i \in calls :
          pc'[i] = pc[i]
          => /\ op'[i] = op[i] /\ args'[i] = args[i] /\ url'[i] = url[i]
             /\ gets'[i] = gets[i] /\ outcome'[i] = outcome[i] /\ result'[i] = result[i]
             /\ {r \in inflight' : r.owner = i} = Owned(i)
    /\ \A i \in calls :
          (pc[i] = "awaiting" /\ pc'[i] = "cancelled")
          => {r \in inflight' : r.owner = i} = {}
    /\ \A i, j \in calls : (pc'[i] # pc[i] /\ pc'[j] # pc[j]) => i = j

C9_Independent == [](C9_StateIndependent) /\ [][C9_StepIndependent]_vars

C9_Witness ==
    \E i, j \in calls :
        /\ i # j
        /\ pc[i] = "cancelled" /\ result[i].type = "CancelledError"
        /\ pc[j] = "awaiting" /\ Owned(j) # {}

\* C10: in get_specific_e_stat_data an empty-string identifier is treated as
\* an absent one: ("", "a") sends one request with statsDataId only, ("a", "")
\* one with dataSetId only, and two identifiers that are each "" or None are
\* rejected without a request.
C10_EmptyIsAbsent ==
    \A i \in calls :
        (IsSpecific(i) /\ pc[i] # "idle")
        => LET d == args[i].data_set_id
               s == args[i].stats_data_id
               base == {<<"appId">>, <<"startPosition">>, <<"limit">>}
           IN  /\ (d = Str(<<>>) /\ s = Str(<<"a">>))
                     => /\ gets[i] = 1 /\ pc[i] # "raised"
                        /\ ParamNames(url[i]) = base \cup {<<"statsDataId">>}
                        /\ Param("statsDataId", <<"a">>) \in ParamSet(url[i])
                        /\ url[i] = SpecificURL(E_STAT_APP_ID, None, s,
                                                args[i].startPosition, args[i].limit)
               /\ (d = Str(<<"a">>) /\ s = Str(<<>>))
                     => /\ gets[i] = 1 /\ pc[i] # "raised"
                        /\ ParamNames(url[i]) = base \cup {<<"dataSetId">>}
                        /\ Param("dataSetId", <<"a">>) \in ParamSet(url[i])
                        /\ url[i] = SpecificURL(E_STAT_APP_ID, d, None,
                                                args[i].startPosition, args[i].limit)
               /\ (d \in {None, Str(<<>>)} /\ s \in {None, Str(<<>>)})
                     => /\ pc[i] = "raised" /\ gets[i] = 0 /\ Owned(i) = {}

C10_Witness ==
    \E i \in calls :
        /\ IsSpecific(i)
        /\ args[i].data_set_id = Str(<<>>) /\ args[i].stats_data_id = Str(<<"a">>)
        /\ pc[i] = "returned"
        /\ gets[i] = 1

====
